---- MODULE Spec2Model ----
(***************************************************************************)
(* Process supervision core of node-mencoder (src/processor.js).           *)
(*                                                                         *)
(* The specifications of this module share its definitions:                *)
(*   SupSpec   : one direct call of _spawnMencoder with arbitrary capture  *)
(*               options (the way the capability queries call it), and the *)
(*               subprocess events delivered in every order;               *)
(*   Spec      : one call of run() on any command: preparation, the        *)
(*               supervised transcoder, the stream and timer handlers      *)
(*               wired by processCB, endCB and the flvtool processes.      *)
(*               LiveSpec is Spec with the fairness of the event loop;     *)
(*   RerunSpec : several calls of run() on one command that writes to      *)
(*               files and has no deadline, overlapping or not, with       *)
(*               kill() and renice() called at any moment;                 *)
(*   ProgressSpec, RetrySpec, ControlSpec, GraceSpec, ProbeSpec, DataSpec :*)
(*               one or several calls of run() with the stdout or stderr   *)
(*               data,                                                     *)
(*               the deadline, kill() and renice(), the close of the       *)
(*               output stream, or the listeners a caller adds;            *)
(*   ArgsSpec  : one call of _getArguments on any command;                 *)
(*   CatalogSpec : calls of the capability queries on a fresh cache.       *)
(***************************************************************************)
EXTENDS Integers, Sequences, FiniteSets, TLC

\* ------------------------------------------------------------------------
\* Bounds of the model
\* ------------------------------------------------------------------------
\* number of run() calls issued on the command
MaxRuns == 2
\* number of outputs of the command
MaxOutputs == 2
\* 'error' events one ChildProcess may emit
MaxProcErrors == 1
\* length of the text one process writes to stdout or to stderr, in tokens
MaxText == 3
\* capability queries issued in the lifetime of the module
MaxQueries == 2
\* number of inputs of the command
MaxInputs == 2

VARIABLES
  sup,          \* the closure state of one direct _spawnMencoder call
  cache,        \* the module-wide path cache (cache.mencoderPath, cache.flvtoolPath)
  outputs,      \* command._outputs
  inputStream,  \* TRUE when one of command._inputs is a readable stream
  options,      \* command.options (timeout, niceness)
  mencoderProc, \* command.mencoderProc: 0 when absent, else the run whose ChildProcess it is
  runs,         \* the closure state of every run() call
  callsLeft,    \* run() calls the caller still makes
  streams,      \* events already emitted by the input source / output destination
  lastEffect,   \* the last thing done to the outside by kill(), renice() or a handler:
                \* a signal sent to a process, a warning logged, a renice process spawned
  codecDataSent, \* command._codecDataSent
  listeners,    \* which of the 'progress' and 'codecData' events have listeners
  logger,       \* the last warning renice() has logged
  command,      \* the lists _getArguments reads beside command._outputs:
                \* command._inputs, command._global, command._complexFilters
  arguments,    \* the list the last call of _getArguments has returned
  queries       \* the calls of availableFilters/Codecs/Encoders/Formats made so far

vars == <<sup, cache, outputs, inputStream, options, mencoderProc, runs, callsLeft, streams, lastEffect,
          codecDataSent, listeners, logger, command, arguments, queries>>

runVars == <<outputs, inputStream, options, mencoderProc, runs, callsLeft, streams, lastEffect,
             codecDataSent, listeners, logger, command, arguments, queries>>

Max(a, b) == IF a > b THEN a ELSE b

Min(a, b) == IF a < b THEN a ELSE b

\* ------------------------------------------------------------------------
\* Errors: <<kind, number>>
\* ------------------------------------------------------------------------
NoErr == <<"null", 0>>

Err(kind) == <<kind, 0>>

\* the 'exit' handler looking at the exit code only
exitErr_codeOnly(code, signal) ==
  IF code # 0 THEN <<"mencoder exited with code", code>> ELSE NoErr

\* src/processor.js:163-173  the error the 'exit' handler passes to handleExit
exitErr(code, signal) ==
  IF signal # "" THEN <<"mencoder was killed with signal", 0>>
  ELSE IF code # 0 THEN <<"mencoder exited with code", code>>
  ELSE NoErr

\* the (code, signal) pairs a ChildProcess reports on 'exit'
ExitOutcomes ==
  { [code |-> 0, signal |-> ""],
    [code |-> 1, signal |-> ""],
    [code |-> 0, signal |-> "SIGKILL"] }

\* what a path lookup yields: an error, no path, a path
Lookups == {"err", "", "/usr/bin/tool"}

\* ------------------------------------------------------------------------
\* _spawnMencoder: the closure of one call
\* ------------------------------------------------------------------------
\* the closure variables of one _spawnMencoder call and its ChildProcess
NoSup ==
  [ st            |-> "none",     \* none | resolving | spawned | failed
    captureStdout |-> FALSE,
    captureStderr |-> FALSE,
    processExited |-> FALSE,
    stdoutClosed  |-> FALSE,
    stderrClosed  |-> FALSE,
    exitError     |-> NoErr,
    proc          |-> "none",     \* none | alive | exited | failed
    errors        |-> 0 ]         \* 'error' events the ChildProcess has emitted

\* handleExit's condition with the stdout conjunct dropped
handleExitReady_noStdout(s) ==
  s.processExited /\ (s.stderrClosed \/ ~s.captureStderr)

\* handleExit's condition waiting for both streams whatever the options
handleExitReady_waitsAll(s) ==
  s.processExited /\ s.stdoutClosed /\ s.stderrClosed

\* src/processor.js:154-156  handleExit's condition for calling endCB
handleExitReady(s) ==
  /\ s.processExited
  /\ (s.stdoutClosed \/ ~s.captureStdout)
  /\ (s.stderrClosed \/ ~s.captureStderr)

\* src/processor.js:149-152  handleExit(err): remember the error
handleExit(s, err) ==
  IF err # NoErr THEN [s EXCEPT !.exitError = err] ELSE s

\* src/processor.js:163-173  the 'exit' handler, up to the call of endCB
onExit(s, code, signal) ==
  handleExit([s EXCEPT !.processExited = TRUE, !.proc = "exited"], exitErr(code, signal))

\* src/processor.js:183-186
onStdoutClose(s) == handleExit([s EXCEPT !.stdoutClosed = TRUE], NoErr)

\* src/processor.js:197-200
onStderrClose(s) == handleExit([s EXCEPT !.stderrClosed = TRUE], NoErr)

\* src/processor.js:137  the closure right after spawn(command, args, options)
spawned(s) == [s EXCEPT !.st = "spawned", !.proc = "alive"]

\* src/processor.js:122-126  the program handed to spawn (on a platform that has
\* process priorities)
spawnCommand(niceness) == IF niceness # 0 THEN "nice" ELSE "mencoder"

\* the callback of the lookup taking an empty path for a path
resolveErr_emptyOk(res) ==
  IF res = "err" THEN Err("which failed") ELSE NoErr

\* src/processor.js:115-120  what _getMencoderPath's callback does with (err, command)
resolveErr(res) ==
  IF res = "err" THEN Err("which failed")
  ELSE IF res = "" THEN Err("Cannot find mencoder")
  ELSE NoErr

\* src/processor.js:759-765  the cache after _getMencoderPath's final callback
cacheMencoder(c, res) ==
  IF res = "err" THEN c ELSE [c EXCEPT !.mencoderPath = res]

\* the 'error' events of a ChildProcess: a spawn failure, after which no 'exit'
\* follows, or another failure (a kill that fails), after which 'exit' still follows
ProcErrorKinds == {"spawn", "other"}

canProcError(s, kind) ==
  /\ s.proc = "alive"
  /\ s.errors < MaxProcErrors
  /\ kind = "spawn" => ~(s.processExited \/ s.stdoutClosed \/ s.stderrClosed)

afterProcError(s, kind) ==
  [s EXCEPT !.errors = @ + 1,
            !.proc = IF kind = "spawn" THEN "failed" ELSE @]

\* ------------------------------------------------------------------------
\* SupSpec: one direct call  _spawnMencoder(args, options, endCB)
\* ------------------------------------------------------------------------
\* sup = [c: closure, niceness: options.niceness, command: the program spawned,
\*        endLog: the endCB invocations, started: processCB calls]
CacheInit ==
  [ mencoderPath |-> "unset", flvtoolPath |-> "unset",
    filters |-> "unset", codecs |-> "unset", encoders |-> "unset", formats |-> "unset" ]

SupIdle == [c |-> NoSup, niceness |-> 0, command |-> "", endLog |-> <<>>, started |-> 0]

\* src/processor.js:157 / 144 / 117-119  endCB(err, ...) recorded with its caller
SupEndCB(log, err, via) == Append(log, [err |-> err, via |-> via])

\* src/processor.js:100-115  the call, up to _getMencoderPath
SupCall(capOut, capErr, niceness) ==
  /\ sup.c.st = "none"
  /\ LET c0 == [NoSup EXCEPT !.captureStdout = capOut, !.captureStderr = capErr]
     IN IF cache.mencoderPath # "unset"
        THEN \* src/processor.js:729-731 cached: the callback runs at once
             IF cache.mencoderPath = ""
             THEN sup' = [sup EXCEPT !.c = [c0 EXCEPT !.st = "failed"],
                                     !.niceness = niceness,
                                     !.endLog = SupEndCB(@, Err("Cannot find mencoder"), "resolve")]
             ELSE sup' = [sup EXCEPT !.c = spawned(c0), !.command = spawnCommand(niceness),
                                     !.niceness = niceness, !.started = @ + 1]
        ELSE sup' = [sup EXCEPT !.c = [c0 EXCEPT !.st = "resolving"], !.niceness = niceness]
  /\ UNCHANGED <<cache, runVars>>

\* src/processor.js:115-145, 204  _getMencoderPath calls back
SupResolved(res) ==
  /\ sup.c.st = "resolving"
  /\ cache' = cacheMencoder(cache, res)
  /\ IF resolveErr(res) # NoErr
     THEN sup' = [sup EXCEPT !.c.st = "failed",
                             !.endLog = SupEndCB(@, resolveErr(res), "resolve")]
     ELSE sup' = [sup EXCEPT !.c = spawned(@), !.command = spawnCommand(sup.niceness),
                             !.started = @ + 1]
  /\ UNCHANGED runVars

\* the 'error' handler going through handleExit's condition
onProcError_waits(log, c) ==
  IF handleExitReady(c) THEN SupEndCB(log, Err("spawn error"), "error") ELSE log

\* src/processor.js:143-145  the 'error' handler: endCB(err), whatever the closure holds
onProcError(log, c) == SupEndCB(log, Err("spawn error"), "error")

\* src/processor.js:143-145  'error' event of the ChildProcess
SupProcError(kind) ==
  /\ canProcError(sup.c, kind)
  /\ sup' = [sup EXCEPT !.c = afterProcError(@, kind),
                        !.endLog = onProcError(@, sup.c)]
  /\ UNCHANGED <<cache, runVars>>

\* the closure after a handler that ends in handleExit, and the endCB call it makes
SupAfter(c1) ==
  sup' = [sup EXCEPT !.c = c1,
                     !.endLog = IF handleExitReady(c1)
                                THEN SupEndCB(@, c1.exitError, "exit") ELSE @]

\* src/processor.js:163-173
SupExit(o) ==
  /\ sup.c.proc = "alive"
  /\ SupAfter(onExit(sup.c, o.code, o.signal))
  /\ UNCHANGED <<cache, runVars>>

\* src/processor.js:176-187  (registered only when captureStdout)
SupStdoutClose ==
  /\ sup.c.st = "spawned" /\ sup.c.captureStdout /\ ~sup.c.stdoutClosed
  /\ SupAfter(onStdoutClose(sup.c))
  /\ UNCHANGED <<cache, runVars>>

\* src/processor.js:190-201  (registered only when captureStderr)
SupStderrClose ==
  /\ sup.c.st = "spawned" /\ sup.c.captureStderr /\ ~sup.c.stderrClosed
  /\ SupAfter(onStderrClose(sup.c))
  /\ UNCHANGED <<cache, runVars>>


\* ------------------------------------------------------------------------
\* run(): the closure of one call
\* ------------------------------------------------------------------------
Runs == 1..MaxRuns

\* src/processor.js:404-405, 424-433, 451  the variables run() closes over
NoRun ==
  [ phase   |-> "idle",   \* idle | thrown | preparing | flvlookup | failed | supervising
    c       |-> NoSup,    \* the closure of the run's _spawnMencoder call
    ended   |-> FALSE,    \* the latch of emitEnd
    events  |-> <<>>,     \* the 'error' / 'end' events emitted, in order
    started |-> 0,        \* 'start' events emitted
    endCBs  |-> 0,        \* calls of endCB
    timer   |-> "none",   \* processTimer: none | pending
    grace   |-> "none",   \* the 20 ms timer of the output 'close' handler: none | pending
    rw      |-> <<>>,     \* flvtool processes, one entry per output
    rwCb    |-> FALSE,    \* async.each has called its final callback
    stdout  |-> <<>>,     \* the stdout text gathered by the 'data' handler
    stderr  |-> <<>>,     \* the stderr text gathered by the 'data' handler
    written |-> 0,        \* progress marker lines the transcoder has written to stdout
    progress  |-> 0,      \* 'progress' events emitted from the stdout of this run
    codecData |-> 0,      \* 'codecData' events emitted from the stderr of this run
    prepErr |-> NoErr,    \* the err _prepare has passed to its callback
    ffprobes |-> 0,       \* calls of runFfprobe made by the _prepare of this run
    newListener |-> FALSE ]  \* the handler _prepare has put on 'newListener' is still there

\* emitEnd's guard without the latch
emitEndGuard_always(rr) == TRUE

\* src/processor.js:407  emitEnd's guard
emitEndGuard(rr) == ~rr.ended

\* src/processor.js:406-416
emitEnd(rr, err) ==
  IF emitEndGuard(rr)
  THEN [rr EXCEPT !.ended = TRUE,
                  !.events = Append(@, [type |-> IF err # NoErr THEN "error" ELSE "end",
                                        err  |-> err])]
  ELSE rr

\* effects: [kind, pid (the run whose ChildProcess is meant), signal]
NoEffect == [kind |-> "none", pid |-> 0, signal |-> ""]

\* a handler that forgets to kill
procKill_never(eff, r, signal) == eff

\* ChildProcess.kill(signal) on the process of run r: a signal is sent only to a
\* process that still runs
procKill(eff, r, signal) ==
  IF runs[r].c.proc = "alive" THEN [kind |-> "signal", pid |-> r, signal |-> signal] ELSE eff

\* kill() called by every handler of one stream event, in the order the handlers
\* were put on the stream (wiredRuns: the runs that have one)
RECURSIVE procKillAll(_, _, _)
procKillAll(eff, r, wiredRuns) ==
  IF r > MaxRuns THEN eff
  ELSE procKillAll(IF r \in wiredRuns THEN procKill(eff, r, "SIGTERM") ELSE eff, r + 1, wiredRuns)

\* the check with the test of the key dropped
outputPresent_any(outs) == Len(outs) > 0

\* src/processor.js:386-388  'target' in output, for some output
outputPresent(outs) == \E i \in 1..Len(outs) : outs[i].target # "absent"

\* src/processor.js:395-397  the output stream, if any
hasOutputStream == \E i \in 1..Len(outputs) : outputs[i].target = "stream"

\* src/processor.js:305-313  Array.some with its side effect: outputs are visited
\* in order until the callback returns true; a visited non-file output loses its flag
RECURSIVE someFlvmeta(_, _)
someFlvmeta(outs, i) ==
  IF i > Len(outs) THEN [outs |-> outs, found |-> FALSE]
  ELSE LET o  == outs[i]
           o1 == IF o.flvmeta /\ ~o.isFile THEN [o EXCEPT !.flvmeta = FALSE] ELSE o
           outs1 == [outs EXCEPT ![i] = o1]
       IN IF o1.flvmeta THEN [outs |-> outs1, found |-> TRUE]
          ELSE someFlvmeta(outs1, i + 1)

\* src/processor.js:528-530  the outputs endCB runs flvtool on
flvmetaOutputs(outs) == { i \in 1..Len(outs) : outs[i].flvmeta }

\* endCB passing every error on as it is
enrich_never(err) == err

\* src/processor.js:520-523  endCB adds the stderr diagnostic to an exit-code error
enrich(err) ==
  IF err[1] = "mencoder exited with code"
  THEN <<"mencoder exited with code: stderr", err[2]>>
  ELSE err

\* the handle after endCB when the delete is missing
handleAfterEndCB_kept(h) == h

\* src/processor.js:517  delete self.mencoderProc
handleAfterEndCB(h) == 0

\* src/processor.js:516-568  endCB(err) of run r: the closure of the run afterwards
endCB(rr, err) ==
  LET r1 == [rr EXCEPT !.endCBs = @ + 1]
      flv == flvmetaOutputs(outputs)
  IN IF err # NoErr THEN emitEnd(r1, enrich(err))
     ELSE IF flv # {}
          THEN [r1 EXCEPT !.rw = [i \in 1..Len(outputs) |->
                                     IF i \in flv THEN "running" ELSE "none"]]
          ELSE emitEnd(r1, NoErr)

\* src/processor.js:431-459, 504  processCB: the closure once the process is created
processCB(rr) ==
  [rr EXCEPT !.c = spawned(@),
             !.started = @ + 1,
             !.timer = IF options.timeout # 0 THEN "pending" ELSE "none"]

\* src/processor.js:426, 115-145, 204  _spawnMencoder called by run r: lookup of the
\* binary (cached or not), then spawn and processCB, or endCB with the lookup error
spawnMencoder(r, rr) ==
  IF cache.mencoderPath = "unset"
  THEN /\ runs' = [runs EXCEPT ![r] = [rr EXCEPT !.phase = "supervising", !.c.st = "resolving"]]
       /\ UNCHANGED <<mencoderProc, codecDataSent>>
  ELSE IF cache.mencoderPath = ""
  THEN /\ runs' = [runs EXCEPT ![r] =
                     endCB([rr EXCEPT !.phase = "supervising", !.c.st = "failed"],
                           Err("Cannot find mencoder"))]
       /\ mencoderProc' = handleAfterEndCB(mencoderProc)
       /\ UNCHANGED codecDataSent
  ELSE /\ runs' = [runs EXCEPT ![r] = processCB([rr EXCEPT !.phase = "supervising"])]
       /\ mencoderProc' = r
       /\ codecDataSent' = FALSE

\* the callback of _prepare going on whatever the error
prepareFailed_never(err) == FALSE

\* src/processor.js:419  if (err)
prepareFailed(err) == err # NoErr

\* src/processor.js:418-426  the callback run() gives to _prepare
prepareCB(r, rr, err) ==
  IF prepareFailed(err)
  THEN /\ runs' = [runs EXCEPT ![r] = emitEnd([rr EXCEPT !.phase = "failed", !.prepErr = err], err)]
       /\ UNCHANGED <<mencoderProc, codecDataSent>>
  ELSE spawnMencoder(r, [rr EXCEPT !.prepErr = err])

\* src/processor.js:324-334  the last step of _prepare: the argument list is built,
\* or the exception thrown while building it is passed on
buildAndSpawn(r, rr, args) ==
  prepareCB(r, rr, IF args = "throw" THEN Err("bad filter") ELSE NoErr)

\* a handler put on 'newListener' with on() instead of once()
afterOnce_kept(h) == h

\* src/processor.js:363  this.once(...): the handler is taken off when it is called
afterOnce(h) == FALSE

\* src/processor.js:363-367  the handler of 'newListener', called with the name of
\* the event a listener is being added for
onNewListener(rr, event) ==
  IF rr.newListener
  THEN [rr EXCEPT !.newListener = afterOnce(@),
                  !.ffprobes = IF event = "progress" THEN @ + 1 ELSE @]
  ELSE rr

\* src/processor.js:355-369  the end of _prepare(callback), called without readMetadata
readMetadataLater(rr, l) ==
  IF l.progress THEN [rr EXCEPT !.ffprobes = @ + 1]
  ELSE [rr EXCEPT !.newListener = TRUE]

\* src/processor.js:382-392, 418, 355-369  run(): the output check, then _prepare,
\* which starts the preparation and reads the metadata or puts its handler on
\* 'newListener' (adding that handler is itself announced to the handlers of the
\* earlier runs)
Run(r) ==
  /\ callsLeft > 0
  /\ runs[r].phase = "idle"
  /\ r > 1 => runs[r - 1].phase # "idle"
  /\ callsLeft' = callsLeft - 1
  /\ runs' = IF ~outputPresent(outputs)
             THEN [runs EXCEPT ![r].phase = "thrown"]
             ELSE [q \in Runs |->
                     IF q = r
                     THEN readMetadataLater([runs[r] EXCEPT !.phase = "preparing"], listeners)
                     ELSE IF listeners.progress THEN runs[q]
                     ELSE onNewListener(runs[q], "newListener")]
  /\ UNCHANGED <<sup, command, arguments, queries, cache, outputs, inputStream, options, mencoderProc, streams, lastEffect,
               codecDataSent, listeners, logger>>

\* src/processor.js:303-334  _prepare: the flvtool check, then the argument list
\* (args: _getArguments returns, or utils.makeFilterStrings throws)
Prepare(r, args) ==
  /\ runs[r].phase = "preparing"
  /\ LET s == someFlvmeta(outputs, 1)
     IN /\ outputs' = s.outs
        /\ IF s.found /\ cache.flvtoolPath = "unset"
           THEN /\ runs' = [runs EXCEPT ![r].phase = "flvlookup"]
                /\ UNCHANGED <<mencoderProc, codecDataSent>>
           ELSE buildAndSpawn(r, runs[r], args)
  /\ UNCHANGED <<sup, command, arguments, queries, cache, inputStream, options, streams, lastEffect, callsLeft,
               listeners, logger>>

\* src/processor.js:316-318, 903-909  _getFlvtoolPath calls back
FlvtoolResolved(r, res, args) ==
  /\ runs[r].phase = "flvlookup"
  /\ IF res = "err"
     THEN /\ prepareCB(r, runs[r], Err("which failed"))
          /\ UNCHANGED cache
     ELSE /\ cache' = [cache EXCEPT !.flvtoolPath = res]
          /\ buildAndSpawn(r, runs[r], args)
  /\ UNCHANGED <<sup, command, arguments, queries, outputs, inputStream, options, streams, lastEffect, callsLeft,
               listeners, logger>>

\* src/processor.js:115-145, 204  _getMencoderPath calls back for run r
MencoderResolved(r, res) ==
  /\ runs[r].c.st = "resolving"
  /\ cache' = cacheMencoder(cache, res)
  /\ IF resolveErr(res) # NoErr
     THEN /\ runs' = [runs EXCEPT ![r] = endCB([runs[r] EXCEPT !.c.st = "failed"], resolveErr(res))]
          /\ mencoderProc' = handleAfterEndCB(mencoderProc)
          /\ UNCHANGED codecDataSent
     ELSE /\ runs' = [runs EXCEPT ![r] = processCB(runs[r])]
          /\ mencoderProc' = r
          /\ codecDataSent' = FALSE
  /\ UNCHANGED <<sup, command, arguments, queries, outputs, inputStream, options, streams, lastEffect, callsLeft,
               listeners, logger>>


\* ------------------------------------------------------------------------
\* Events of the supervised transcoder of run r
\* ------------------------------------------------------------------------
\* src/processor.js:163-173, 157, 516-568  'exit': handleExit calls endCB
ProcExit(r, o) ==
  /\ runs[r].c.proc = "alive"
  /\ LET c1 == onExit(runs[r].c, o.code, o.signal)
         r1 == [runs[r] EXCEPT !.c = c1]
     IN IF handleExitReady(c1)
        THEN /\ runs' = [runs EXCEPT ![r] = endCB(r1, c1.exitError)]
             /\ mencoderProc' = handleAfterEndCB(mencoderProc)
        ELSE /\ runs' = [runs EXCEPT ![r] = r1]
             /\ UNCHANGED <<mencoderProc, codecDataSent>>
  /\ UNCHANGED <<sup, command, arguments, queries, cache, outputs, inputStream, options, streams, lastEffect, callsLeft,
               codecDataSent, listeners, logger>>

\* src/processor.js:143-145, 516-568  'error': endCB(err) at once
ProcError(r, kind) ==
  /\ canProcError(runs[r].c, kind)
  /\ runs' = [runs EXCEPT ![r] =
                endCB([runs[r] EXCEPT !.c = afterProcError(@, kind)], Err("spawn error"))]
  /\ mencoderProc' = handleAfterEndCB(mencoderProc)
  /\ UNCHANGED <<sup, command, arguments, queries, cache, outputs, inputStream, options, streams, lastEffect, callsLeft,
               codecDataSent, listeners, logger>>

\* src/processor.js:453-458  processTimer fires (it is never cleared)
Timer(r) ==
  /\ runs[r].timer = "pending"
  /\ runs' = [runs EXCEPT ![r] =
                emitEnd([runs[r] EXCEPT !.timer = "none"],
                        <<"process ran into a timeout", options.timeout>>)]
  /\ lastEffect' = procKill(lastEffect, r, "SIGTERM")
  /\ UNCHANGED <<sup, command, arguments, queries, cache, outputs, inputStream, options, mencoderProc, streams, callsLeft,
               codecDataSent, listeners, logger>>

\* the runs whose processCB has put handlers on the command's streams
wired(r) == runs[r].started > 0

\* src/processor.js:437-440  'error' of the input stream: every handler put on it runs
InputError ==
  /\ inputStream /\ ~streams.inErr
  /\ \E r \in Runs : wired(r)
  /\ streams' = [streams EXCEPT !.inErr = TRUE]
  /\ runs' = [r \in Runs |->
                IF wired(r) THEN emitEnd(runs[r], Err("Input stream error")) ELSE runs[r]]
  /\ lastEffect' = procKillAll(lastEffect, 1, { r \in Runs : wired(r) })
  /\ UNCHANGED <<sup, command, arguments, queries, cache, outputs, inputStream, options, mencoderProc, callsLeft,
               codecDataSent, listeners, logger>>

\* src/processor.js:466-477  'close' of the output stream: each handler starts its 20 ms timer
OutputClose ==
  /\ hasOutputStream /\ ~streams.outClosed
  /\ \E r \in Runs : wired(r)
  /\ streams' = [streams EXCEPT !.outClosed = TRUE]
  /\ runs' = [r \in Runs |->
                IF wired(r) THEN [runs[r] EXCEPT !.grace = "pending"] ELSE runs[r]]
  /\ UNCHANGED <<sup, command, arguments, queries, cache, outputs, inputStream, options, mencoderProc, lastEffect, callsLeft,
               codecDataSent, listeners, logger>>

\* src/processor.js:473-476  the 20 ms timer fires
GraceTimer(r) ==
  /\ runs[r].grace = "pending"
  /\ runs' = [runs EXCEPT ![r] =
                emitEnd([runs[r] EXCEPT !.grace = "none"], Err("Output stream closed"))]
  /\ lastEffect' = procKill(lastEffect, r, "SIGTERM")
  /\ UNCHANGED <<sup, command, arguments, queries, cache, outputs, inputStream, options, mencoderProc, streams, callsLeft,
               codecDataSent, listeners, logger>>

\* src/processor.js:479-483  'error' of the output stream
OutputError ==
  /\ hasOutputStream /\ ~streams.outErr
  /\ \E r \in Runs : wired(r)
  /\ streams' = [streams EXCEPT !.outErr = TRUE]
  /\ runs' = [r \in Runs |->
                IF wired(r) THEN emitEnd(runs[r], Err("Output stream error")) ELSE runs[r]]
  /\ lastEffect' = procKillAll(lastEffect, 1, { r \in Runs : wired(r) })
  /\ UNCHANGED <<sup, command, arguments, queries, cache, outputs, inputStream, options, mencoderProc, callsLeft,
               codecDataSent, listeners, logger>>

\* ------------------------------------------------------------------------
\* flvtool processes started by endCB
\* ------------------------------------------------------------------------
\* async.each: the number of iterator callbacks that reported success
completed(rw) == Cardinality({ i \in 1..Len(rw) : rw[i] = "ok" })

\* async.each calling back after the first success
rwCount_one(rw) == 1

\* async.each: arr.length
rwCount(rw) == Cardinality({ i \in 1..Len(rw) : rw[i] # "none" })

\* src/processor.js:538-561  'error' or 'exit' of the flvtool process of output i,
\* then async.each: the first error, or the last success, calls the final callback
RewriterDone(r, i, res) ==
  /\ i \in 1..Len(runs[r].rw)
  /\ runs[r].rw[i] = "running"
  /\ cache.flvtoolPath \in {"", "unset"} => res = "failed"
  /\ LET r1 == [runs[r] EXCEPT !.rw[i] = res]
     IN runs' = [runs EXCEPT ![r] =
          IF r1.rwCb THEN r1
          ELSE IF res = "failed"
               THEN emitEnd([r1 EXCEPT !.rwCb = TRUE], <<"flvtool failed", i>>)
          ELSE IF completed(r1.rw) >= rwCount(r1.rw)
               THEN emitEnd([r1 EXCEPT !.rwCb = TRUE], NoErr)
          ELSE r1]
  /\ UNCHANGED <<sup, command, arguments, queries, cache, outputs, inputStream, options, mencoderProc, streams, lastEffect, callsLeft,
               codecDataSent, listeners, logger>>

\* ------------------------------------------------------------------------
\* stdout and stderr of the transcoder
\* ------------------------------------------------------------------------
\* text is a sequence of tokens: "P" a complete progress marker line, "B" the input
\* codec banner, "x" anything else
StdoutChunks == { <<"P">>, <<"x">>, <<"P", "P">> }

StderrChunks == { <<"B">>, <<"x">> }

count(text, token) == Cardinality({ i \in 1..Len(text) : text[i] = token })

\* the handler keeping only the last chunk
gather_lastChunk(text, data) == data

\* src/processor.js:489, 507  stdout += data, stderr += data
gather(text, data) == text \o data

\* utils.extractProgress(command, stdout, duration): scans the whole text and emits
\* one 'progress' event per marker line that no earlier scan of the run has reported
extractProgress(rr, text) ==
  [rr EXCEPT !.progress = Max(@, count(text, "P"))]

\* utils.extractCodecData(command, stderr): when the whole banner is in the text,
\* emits 'codecData' and sets command._codecDataSent
foundCodecData(text) == count(text, "B") > 0

\* the scan made at every chunk
scansCodecData_always(sent, l) == TRUE

\* src/processor.js:509  !self._codecDataSent && self.listeners('codecData').length
scansCodecData(sent, l) == ~sent /\ l.codecData

\* src/processor.js:487-499  'data' of the transcoder's stdout (the handler is put on
\* stdout only when the command has no output stream)
StdoutData(r, data) ==
  /\ runs[r].c.proc = "alive"
  /\ ~hasOutputStream
  /\ Len(runs[r].stdout) + Len(data) <= MaxText
  /\ LET r1 == [runs[r] EXCEPT !.stdout = gather(@, data),
                               !.written = @ + count(data, "P")]
     IN runs' = [runs EXCEPT ![r] =
                   IF listeners.progress THEN extractProgress(r1, r1.stdout) ELSE r1]
  /\ UNCHANGED <<sup, command, arguments, queries, cache, outputs, inputStream, options, mencoderProc, streams, lastEffect,
                 callsLeft, codecDataSent, listeners, logger>>

\* src/processor.js:505-513  'data' of the transcoder's stderr
StderrData(r, data) ==
  /\ runs[r].c.proc = "alive"
  /\ Len(runs[r].stderr) + Len(data) <= MaxText
  /\ LET text == gather(runs[r].stderr, data)
         emits == scansCodecData(codecDataSent, listeners) /\ foundCodecData(text)
     IN /\ runs' = [runs EXCEPT ![r].stderr = text,
                                ![r].codecData = IF emits THEN @ + 1 ELSE @]
        /\ codecDataSent' = (codecDataSent \/ emits)
  /\ UNCHANGED <<sup, command, arguments, queries, cache, outputs, inputStream, options, mencoderProc, streams, lastEffect,
                 callsLeft, listeners, logger>>

\* the events the caller adds listeners for after construction
ListenerEvents == {"progress", "codecData", "end"}

\* command.on(event, listener): 'newListener' is emitted, then the listener is added
AddListener(event) ==
  /\ runs' = [r \in Runs |-> onNewListener(runs[r], event)]
  /\ listeners' = IF event \in DOMAIN listeners
                  THEN [listeners EXCEPT ![event] = TRUE] ELSE listeners
  /\ UNCHANGED <<sup, command, arguments, queries, cache, outputs, inputStream, options,
                 mencoderProc, streams, lastEffect, callsLeft, codecDataSent, logger>>

\* ------------------------------------------------------------------------
\* kill() and renice()
\* ------------------------------------------------------------------------
KillSignals == {"", "SIGINT"}

\* renice(niceness): <<>> for a call without argument, <<n>> for renice(n)
NiceValues == {-999, -21, -20, 0, 5, 20, 21, 999}

NiceInputs == { <<>> } \cup { <<n>> : n \in NiceValues }

\* src/processor.js:587  niceness = niceness || 0
orZero(a) == IF a = <<>> THEN 0 ELSE a[1]

\* src/processor.js:589  niceness < -20 || niceness > 20
invalidNiceness(n) == n < -20 \/ n > 20

\* the clamp without its lower end
clamp_upperOnly(n) == Min(20, n)

\* src/processor.js:593  Math.min(20, Math.max(-20, niceness))
clamp(n) == Min(20, Max(-20, n))

\* src/processor.js:631  !this.mencoderProc
killNoProc(h) == h = 0

\* the signal passed on as given
killSignal_asGiven(signal) == signal

\* src/processor.js:634  signal || 'SIGKILL'
killSignal(signal) == IF signal # "" THEN signal ELSE "SIGKILL"

\* src/processor.js:630-638
Kill(signal) ==
  /\ lastEffect' =
       IF killNoProc(mencoderProc)
       THEN [kind |-> "warn: No running mencoder process", pid |-> 0, signal |-> ""]
       ELSE procKill(lastEffect, mencoderProc, killSignal(signal))
  /\ UNCHANGED <<sup, command, arguments, queries, cache, outputs, inputStream, options, mencoderProc, runs, streams, callsLeft,
               codecDataSent, listeners, logger>>

\* src/processor.js:585-618  (on a platform that has process priorities)
Renice(a) ==
  /\ logger' = IF invalidNiceness(orZero(a))
               THEN <<"Invalid niceness value", orZero(a)>> ELSE logger
  /\ options' = [options EXCEPT !.niceness = clamp(orZero(a))]
  /\ lastEffect' = IF mencoderProc # 0
                   THEN [kind |-> "renice", pid |-> mencoderProc, signal |-> ""]
                   ELSE lastEffect
  /\ UNCHANGED <<sup, command, arguments, queries, cache, outputs, inputStream, mencoderProc, runs, streams, callsLeft,
               codecDataSent, listeners>>

\* ------------------------------------------------------------------------
\* The command the runs are issued on
\* ------------------------------------------------------------------------
\* an output as the constructor leaves it, and outputs with a target
AbsentOutput == [target |-> "absent", isFile |-> FALSE, flvmeta |-> FALSE]

TargetedOutputs ==
  { [target |-> "path", isFile |-> TRUE, flvmeta |-> f] : f \in BOOLEAN } \cup
  { [target |-> "stream", isFile |-> FALSE, flvmeta |-> f] : f \in BOOLEAN }

\* at most one output is a stream
OutputLists ==
  { <<AbsentOutput>> } \cup
  { outs \in UNION { [1..n -> TargetedOutputs] : n \in 1..MaxOutputs } :
      Cardinality({ i \in DOMAIN outs : outs[i].target = "stream" }) <= 1 }

\* options.timeout in seconds, 0 when none is configured
Timeouts == {0, 1}

\* a command nobody listens to for 'progress' or 'codecData'
NoListeners == [progress |-> FALSE, codecData |-> FALSE]

\* nothing logged yet
NoWarning == <<"", 0>>

\* a command without inputs and without global or complex-filter options
NoCommand == [inputs |-> <<>>, global |-> <<>>, complexFilters |-> <<>>]

\* _getArguments not called yet
NoArgs == [called |-> FALSE, list |-> <<>>]

Queries == 1..MaxQueries

\* a capability query not made yet
NoQuery == [kind |-> "", st |-> "idle", via |-> "", result |-> "none"]

NoQueries == [q \in Queries |-> NoQuery]

Init ==
  /\ sup = SupIdle
  /\ cache = CacheInit
  /\ outputs \in OutputLists
  /\ inputStream \in BOOLEAN
  /\ options \in { [timeout |-> t, niceness |-> 0] : t \in Timeouts }
  /\ mencoderProc = 0
  /\ runs = [r \in Runs |-> NoRun]
  /\ callsLeft = 1
  /\ streams = [inErr |-> FALSE, outClosed |-> FALSE, outErr |-> FALSE]
  /\ lastEffect = NoEffect
  /\ codecDataSent = FALSE
  /\ listeners = NoListeners
  /\ logger = NoWarning
  /\ command = NoCommand
  /\ arguments = NoArgs
  /\ queries = NoQueries

Next ==
  \/ \E r \in Runs : Run(r)
  \/ \E r \in Runs, args \in {"ok", "throw"} : Prepare(r, args)
  \/ \E r \in Runs, res \in Lookups, args \in {"ok", "throw"} : FlvtoolResolved(r, res, args)
  \/ \E r \in Runs, res \in Lookups : MencoderResolved(r, res)
  \/ \E r \in Runs, o \in ExitOutcomes : ProcExit(r, o)
  \/ \E r \in Runs, kind \in ProcErrorKinds : ProcError(r, kind)
  \/ \E r \in Runs : Timer(r)
  \/ InputError
  \/ OutputClose
  \/ \E r \in Runs : GraceTimer(r)
  \/ OutputError
  \/ \E r \in Runs, i \in 1..MaxOutputs, res \in {"ok", "failed"} : RewriterDone(r, i, res)

Spec == Init /\ [][Next]_vars

\* the event loop delivers every pending callback, timer and process event
Fairness ==
  \A r \in Runs :
    /\ WF_vars(\E args \in {"ok", "throw"} : Prepare(r, args))
    /\ WF_vars(\E res \in Lookups, args \in {"ok", "throw"} : FlvtoolResolved(r, res, args))
    /\ WF_vars(\E res \in Lookups : MencoderResolved(r, res))
    /\ WF_vars(\E o \in ExitOutcomes : ProcExit(r, o))
    /\ WF_vars(Timer(r))
    /\ WF_vars(GraceTimer(r))
    /\ WF_vars(\E i \in 1..MaxOutputs, res \in {"ok", "failed"} : RewriterDone(r, i, res))

LiveSpec == Init /\ [][Next]_vars /\ Fairness

\* one direct call of _spawnMencoder on a fresh or already filled path cache
SupInit ==
  /\ sup = SupIdle
  /\ cache \in { [CacheInit EXCEPT !.mencoderPath = p] : p \in {"unset", "", "/usr/bin/tool"} }
  /\ outputs = <<AbsentOutput>>
  /\ inputStream = FALSE
  /\ options = [timeout |-> 0, niceness |-> 0]
  /\ mencoderProc = 0
  /\ runs = [r \in Runs |-> NoRun]
  /\ callsLeft = 0
  /\ streams = [inErr |-> FALSE, outClosed |-> FALSE, outErr |-> FALSE]
  /\ lastEffect = NoEffect
  /\ codecDataSent = FALSE
  /\ listeners = NoListeners
  /\ logger = NoWarning
  /\ command = NoCommand
  /\ arguments = NoArgs
  /\ queries = NoQueries

SupNext ==
  \/ \E capOut \in BOOLEAN, capErr \in BOOLEAN, n \in {0, 5} : SupCall(capOut, capErr, n)
  \/ \E res \in Lookups : SupResolved(res)
  \/ \E kind \in ProcErrorKinds : SupProcError(kind)
  \/ \E o \in ExitOutcomes : SupExit(o)
  \/ SupStdoutClose
  \/ SupStderrClose

SupSpec == SupInit /\ [][SupNext]_vars

\* several calls of run() on a command that writes to files, without flvtool
FileOutputLists ==
  { outs \in OutputLists :
      \A i \in DOMAIN outs : outs[i].target = "path" /\ ~outs[i].flvmeta }

RerunInit ==
  /\ sup = SupIdle
  /\ cache = CacheInit
  /\ outputs \in FileOutputLists
  /\ inputStream = FALSE
  /\ options = [timeout |-> 0, niceness |-> 0]
  /\ mencoderProc = 0
  /\ runs = [r \in Runs |-> NoRun]
  /\ callsLeft = MaxRuns
  /\ streams = [inErr |-> FALSE, outClosed |-> FALSE, outErr |-> FALSE]
  /\ lastEffect = NoEffect
  /\ codecDataSent = FALSE
  /\ listeners = NoListeners
  /\ logger = NoWarning
  /\ command = NoCommand
  /\ arguments = NoArgs
  /\ queries = NoQueries

RerunNext ==
  \/ \E r \in Runs : Run(r)
  \/ \E r \in Runs, args \in {"ok", "throw"} : Prepare(r, args)
  \/ \E r \in Runs, res \in Lookups : MencoderResolved(r, res)
  \/ \E r \in Runs, o \in ExitOutcomes : ProcExit(r, o)
  \/ \E r \in Runs, kind \in ProcErrorKinds : ProcError(r, kind)
  \/ \E signal \in KillSignals : Kill(signal)
  \/ \E a \in { <<0>>, <<999>> } : Renice(a)

RerunSpec == RerunInit /\ [][RerunNext]_vars

\* one call of run() on a command without flvtool, with or without a listener for
\* 'progress', and the stdout of the transcoder delivered in chunks
ProgressInit ==
  /\ sup = SupIdle
  /\ cache = CacheInit
  /\ outputs \in { outs \in OutputLists : \A i \in DOMAIN outs : ~outs[i].flvmeta }
  /\ inputStream = FALSE
  /\ options = [timeout |-> 0, niceness |-> 0]
  /\ mencoderProc = 0
  /\ runs = [r \in Runs |-> NoRun]
  /\ callsLeft = 1
  /\ streams = [inErr |-> FALSE, outClosed |-> FALSE, outErr |-> FALSE]
  /\ lastEffect = NoEffect
  /\ codecDataSent = FALSE
  /\ listeners \in { [progress |-> p, codecData |-> FALSE] : p \in BOOLEAN }
  /\ logger = NoWarning
  /\ command = NoCommand
  /\ arguments = NoArgs
  /\ queries = NoQueries

ProgressNext ==
  \/ \E r \in Runs : Run(r)
  \/ \E r \in Runs, args \in {"ok", "throw"} : Prepare(r, args)
  \/ \E r \in Runs, res \in Lookups : MencoderResolved(r, res)
  \/ \E r \in Runs, o \in ExitOutcomes : ProcExit(r, o)
  \/ \E r \in Runs, data \in StdoutChunks : StdoutData(r, data)

ProgressSpec == ProgressInit /\ [][ProgressNext]_vars

\* run() called again once the previous run has emitted its terminal event
RunAgain(r) ==
  /\ r > 1 => runs[r - 1].events # <<>>
  /\ Run(r)

\* a command that writes to files, run again after each terminal event, with the
\* stderr of the transcoders delivered in chunks
RetryInit ==
  /\ sup = SupIdle
  /\ cache = CacheInit
  /\ outputs \in FileOutputLists
  /\ inputStream = FALSE
  /\ options \in { [timeout |-> t, niceness |-> 0] : t \in Timeouts }
  /\ mencoderProc = 0
  /\ runs = [r \in Runs |-> NoRun]
  /\ callsLeft = MaxRuns
  /\ streams = [inErr |-> FALSE, outClosed |-> FALSE, outErr |-> FALSE]
  /\ lastEffect = NoEffect
  /\ codecDataSent = FALSE
  /\ listeners \in { [progress |-> FALSE, codecData |-> c] : c \in BOOLEAN }
  /\ logger = NoWarning
  /\ command = NoCommand
  /\ arguments = NoArgs
  /\ queries = NoQueries

RetryNext ==
  \/ \E r \in Runs : RunAgain(r)
  \/ \E r \in Runs, args \in {"ok", "throw"} : Prepare(r, args)
  \/ \E r \in Runs, res \in Lookups : MencoderResolved(r, res)
  \/ \E r \in Runs, o \in ExitOutcomes : ProcExit(r, o)
  \/ \E r \in Runs : Timer(r)
  \/ \E r \in Runs, data \in StderrChunks : StderrData(r, data)

RetrySpec == RetryInit /\ [][RetryNext]_vars

\* one call of run() on a command that writes to files, with kill() and renice()
\* called at any moment with any argument
ControlInit ==
  /\ sup = SupIdle
  /\ cache = CacheInit
  /\ outputs \in FileOutputLists
  /\ inputStream = FALSE
  /\ options = [timeout |-> 0, niceness |-> 0]
  /\ mencoderProc = 0
  /\ runs = [r \in Runs |-> NoRun]
  /\ callsLeft = 1
  /\ streams = [inErr |-> FALSE, outClosed |-> FALSE, outErr |-> FALSE]
  /\ lastEffect = NoEffect
  /\ codecDataSent = FALSE
  /\ listeners = NoListeners
  /\ logger = NoWarning
  /\ command = NoCommand
  /\ arguments = NoArgs
  /\ queries = NoQueries

ControlNext ==
  \/ \E r \in Runs : Run(r)
  \/ \E r \in Runs, args \in {"ok", "throw"} : Prepare(r, args)
  \/ \E r \in Runs, res \in Lookups : MencoderResolved(r, res)
  \/ \E r \in Runs, o \in ExitOutcomes : ProcExit(r, o)
  \/ \E signal \in KillSignals : Kill(signal)
  \/ \E a \in NiceInputs : Renice(a)

ControlSpec == ControlInit /\ [][ControlNext]_vars

\* ------------------------------------------------------------------------
\* _getArguments
\* ------------------------------------------------------------------------
\* Array.join(',')
RECURSIVE join(_)
join(list) ==
  IF Len(list) = 0 THEN ""
  ELSE IF Len(list) = 1 THEN list[1]
  ELSE list[1] \o "," \o join(Tail(list))

\* utils.makeFilterStrings(filters): the filter specifications as strings,
\* 'name' or 'name=options'
RECURSIVE makeFilterStrings(_)
makeFilterStrings(filters) ==
  IF Len(filters) = 0 THEN <<>>
  ELSE << IF filters[1].options = "" THEN filters[1].filter
          ELSE filters[1].filter \o "=" \o filters[1].options >>
       \o makeFilterStrings(Tail(filters))

\* src/processor.js:222  a source that is not a string is a stream
source(input) == IF input.source # "stream" THEN input.source ELSE "pipe:0"

\* the filter option put out also for an empty filter list
filterArg_always(flag, filters) == <<flag, join(filters)>>

\* src/processor.js:257, 259  filters.length ? [flag, filters.join(',')] : []
filterArg(flag, filters) ==
  IF Len(filters) # 0 THEN <<flag, join(filters)>> ELSE <<>>

\* src/processor.js:247-253  (a target that is not a string is a stream)
outputArg(output) ==
  IF output.target = "absent" THEN <<>>
  ELSE IF output.target # "stream" THEN <<"-o", output.target>>
  ELSE <<"pipe:1">>

\* src/processor.js:221-229  this._inputs.reduce(...), from input i on
RECURSIVE reduceInputs(_, _, _)
reduceInputs(ins, i, acc) ==
  IF i > Len(ins) THEN acc
  ELSE reduceInputs(ins, i + 1,
                    acc \o ins[i].options \o <<"mf://" \o source(ins[i])>>)

\* src/processor.js:241-263  this._outputs.reduce(...), from output i on
RECURSIVE reduceOutputs(_, _, _)
reduceOutputs(outs, i, acc) ==
  IF i > Len(outs) THEN acc
  ELSE LET output == outs[i]
           sizeFilters == makeFilterStrings(output.sizeFilters)
           audioFilters == output.audioFilters
           videoFilters == output.videoFilters \o sizeFilters
       IN reduceOutputs(outs, i + 1,
            acc \o output.audio
                \o filterArg("-af", audioFilters)
                \o output.video
                \o filterArg("-vf", videoFilters)
                \o output.options
                \o outputArg(output))

\* src/processor.js:216-265
getArguments(cmd, outs) ==
  reduceInputs(cmd.inputs, 1, <<>>)
    \o cmd.global
    \o cmd.complexFilters
    \o reduceOutputs(outs, 1, <<>>)

\* a call of _getArguments on the command
GetArguments ==
  /\ ~arguments.called
  /\ arguments' = [called |-> TRUE, list |-> getArguments(command, outputs)]
  /\ UNCHANGED <<sup, cache, outputs, inputStream, options, mencoderProc, runs, callsLeft, streams,
                 lastEffect, codecDataSent, listeners, logger, command, queries>>

\* the inputs a command may have: a file or a stream, with or without options
InputChoices ==
  { [source |-> s, options |-> o] :
      s \in {"in.avi", "stream"}, o \in { <<>>, <<"-ss", "1">> } }

\* at most one input is a stream
InputLists ==
  { ins \in UNION { [1..n -> InputChoices] : n \in 0..MaxInputs } :
      Cardinality({ i \in DOMAIN ins : ins[i].source = "stream" }) <= 1 }

\* an output with its option and filter lists
withLists(o, audio, audioFilters, video, videoFilters, sizeFilters, opts) ==
  [ target |-> o.target, isFile |-> o.isFile, flvmeta |-> o.flvmeta,
    audio |-> audio, audioFilters |-> audioFilters,
    video |-> video, videoFilters |-> videoFilters, sizeFilters |-> sizeFilters,
    options |-> opts ]

FileOutput == [target |-> "out.avi", isFile |-> TRUE, flvmeta |-> FALSE]

StreamOutput == [target |-> "stream", isFile |-> FALSE, flvmeta |-> FALSE]

Scale == [filter |-> "scale", options |-> "320:240"]

Pad == [filter |-> "expand", options |-> ""]

ArgOutputChoices ==
  { withLists(AbsentOutput, <<>>, <<>>, <<>>, <<>>, <<>>, <<"-of", "avi">>),
    withLists(FileOutput, <<>>, <<>>, <<>>, <<>>, <<>>, <<>>),
    withLists(FileOutput, <<"-oac", "copy">>, <<"volume">>, <<>>, <<>>, <<Scale>>, <<>>),
    withLists(FileOutput, <<>>, <<"volume", "pan">>, <<"-ovc", "lavc">>, <<"flip">>, <<>>, <<>>),
    withLists(StreamOutput, <<>>, <<>>, <<"-ovc", "copy">>, <<"flip">>, <<Scale, Pad>>, <<"-of", "avi">>),
    withLists(StreamOutput, <<"-oac", "copy">>, <<>>, <<>>, <<>>, <<>>, <<>>) }

ArgOutputLists ==
  { outs \in UNION { [1..n -> ArgOutputChoices] : n \in 1..MaxOutputs } :
      Cardinality({ i \in DOMAIN outs : outs[i].target = "stream" }) <= 1 }

\* any command, and one call of _getArguments on it
ArgsInit ==
  /\ sup = SupIdle
  /\ cache = CacheInit
  /\ outputs \in ArgOutputLists
  /\ command \in { [inputs |-> ins, global |-> g, complexFilters |-> cf] :
                      ins \in InputLists,
                      g \in { <<>>, <<"-quiet">> },
                      cf \in { <<>>, <<"-lavfi", "x">> } }
  /\ inputStream = (\E i \in DOMAIN command.inputs : command.inputs[i].source = "stream")
  /\ options = [timeout |-> 0, niceness |-> 0]
  /\ mencoderProc = 0
  /\ runs = [r \in Runs |-> NoRun]
  /\ callsLeft = 0
  /\ streams = [inErr |-> FALSE, outClosed |-> FALSE, outErr |-> FALSE]
  /\ lastEffect = NoEffect
  /\ codecDataSent = FALSE
  /\ listeners = NoListeners
  /\ logger = NoWarning
  /\ arguments = NoArgs
  /\ queries = NoQueries

ArgsNext == GetArguments

ArgsSpec == ArgsInit /\ [][ArgsNext]_vars

\* ------------------------------------------------------------------------
\* Capability queries: availableFilters, availableCodecs, availableEncoders,
\* availableFormats
\* ------------------------------------------------------------------------
\* the key of the cache each query uses
Kinds == {"filters", "codecs", "encoders", "formats"}

\* what the _spawnMencoder call of a query passes to its callback: an error, or
\* the captured stdout as lines ("#" a line the regular expression does not match,
\* any other line the entry of that name)
ProbeOutcomes ==
  { [err |-> TRUE, stdout |-> <<>>],
    [err |-> FALSE, stdout |-> <<"#", "a">>],
    [err |-> FALSE, stdout |-> <<"a", "#", "b">>] }

\* src/processor.js:947-962, 1002-1060, 1103-1119, 1160-1183  the catalog built from
\* the lines that match, written as the list of its keys
RECURSIVE parse(_)
parse(lines) ==
  IF Len(lines) = 0 THEN <<>>
  ELSE (IF lines[1] # "#" THEN <<lines[1]>> ELSE <<>>) \o parse(Tail(lines))

\* src/processor.js:938, 993, 1094, 1149  kind in cache
inCache(c, kind) == c[kind] # "unset"

\* src/processor.js:936-942, 991-997, 1092-1098, 1147-1154  query q is called: the
\* cached catalog is returned at once, or the transcoder is spawned
QueryCall(q, kind) ==
  /\ queries[q].st = "idle"
  /\ q > 1 => queries[q - 1].st # "idle"
  /\ queries' = [queries EXCEPT ![q] =
                   IF inCache(cache, kind)
                   THEN [kind |-> kind, st |-> "done", via |-> "cache", result |-> cache[kind]]
                   ELSE [kind |-> kind, st |-> "probing", via |-> "probe", result |-> "none"]]
  /\ UNCHANGED <<sup, cache, outputs, inputStream, options, mencoderProc, runs, callsLeft, streams,
                 lastEffect, codecDataSent, listeners, logger, command, arguments>>

\* src/processor.js:942-965, 997-1063, 1098-1122, 1154-1186  the callback of the
\* _spawnMencoder call of query q
QueryDone(q, o) ==
  /\ queries[q].st = "probing"
  /\ IF o.err
     THEN /\ queries' = [queries EXCEPT ![q].st = "done", ![q].result = "error"]
          /\ UNCHANGED cache
     ELSE LET data == join(parse(o.stdout))
          IN /\ cache' = [cache EXCEPT ![queries[q].kind] = data]
             /\ queries' = [queries EXCEPT ![q].st = "done", ![q].result = data]
  /\ UNCHANGED <<sup, outputs, inputStream, options, mencoderProc, runs, callsLeft, streams,
                 lastEffect, codecDataSent, listeners, logger, command, arguments>>

\* capability queries made at any moment, on a fresh cache
CatalogInit ==
  /\ sup = SupIdle
  /\ cache = CacheInit
  /\ outputs = <<AbsentOutput>>
  /\ inputStream = FALSE
  /\ options = [timeout |-> 0, niceness |-> 0]
  /\ mencoderProc = 0
  /\ runs = [r \in Runs |-> NoRun]
  /\ callsLeft = 0
  /\ streams = [inErr |-> FALSE, outClosed |-> FALSE, outErr |-> FALSE]
  /\ lastEffect = NoEffect
  /\ codecDataSent = FALSE
  /\ listeners = NoListeners
  /\ logger = NoWarning
  /\ command = NoCommand
  /\ arguments = NoArgs
  /\ queries = NoQueries

CatalogNext ==
  \/ \E q \in Queries, kind \in Kinds : QueryCall(q, kind)
  \/ \E q \in Queries, o \in ProbeOutcomes : QueryDone(q, o)

CatalogSpec == CatalogInit /\ [][CatalogNext]_vars

\* several calls of run() on a command that writes to files, with listeners added
\* at any moment
ProbeInit ==
  /\ sup = SupIdle
  /\ cache = CacheInit
  /\ outputs \in FileOutputLists
  /\ inputStream = FALSE
  /\ options = [timeout |-> 0, niceness |-> 0]
  /\ mencoderProc = 0
  /\ runs = [r \in Runs |-> NoRun]
  /\ callsLeft = MaxRuns
  /\ streams = [inErr |-> FALSE, outClosed |-> FALSE, outErr |-> FALSE]
  /\ lastEffect = NoEffect
  /\ codecDataSent = FALSE
  /\ listeners \in { [progress |-> p, codecData |-> FALSE] : p \in BOOLEAN }
  /\ logger = NoWarning
  /\ command = NoCommand
  /\ arguments = NoArgs
  /\ queries = NoQueries

ProbeNext ==
  \/ \E r \in Runs : Run(r)
  \/ \E r \in Runs, args \in {"ok", "throw"} : Prepare(r, args)
  \/ \E r \in Runs, res \in Lookups : MencoderResolved(r, res)
  \/ \E r \in Runs, o \in ExitOutcomes : ProcExit(r, o)
  \/ \E event \in ListenerEvents : AddListener(event)

ProbeSpec == ProbeInit /\ [][ProbeNext]_vars

\* one call of run() on a command that writes to files, with or without a deadline
\* and listeners, and the stdout and stderr of the transcoder delivered in chunks
DataInit ==
  /\ sup = SupIdle
  /\ cache = CacheInit
  /\ outputs \in FileOutputLists
  /\ inputStream = FALSE
  /\ options \in { [timeout |-> t, niceness |-> 0] : t \in Timeouts }
  /\ mencoderProc = 0
  /\ runs = [r \in Runs |-> NoRun]
  /\ callsLeft = 1
  /\ streams = [inErr |-> FALSE, outClosed |-> FALSE, outErr |-> FALSE]
  /\ lastEffect = NoEffect
  /\ codecDataSent = FALSE
  /\ listeners \in { [progress |-> p, codecData |-> c] : p \in BOOLEAN, c \in BOOLEAN }
  /\ logger = NoWarning
  /\ command = NoCommand
  /\ arguments = NoArgs
  /\ queries = NoQueries

DataNext ==
  \/ \E r \in Runs : Run(r)
  \/ \E r \in Runs, args \in {"ok", "throw"} : Prepare(r, args)
  \/ \E r \in Runs, res \in Lookups : MencoderResolved(r, res)
  \/ \E r \in Runs, o \in ExitOutcomes : ProcExit(r, o)
  \/ \E r \in Runs, kind \in ProcErrorKinds : ProcError(r, kind)
  \/ \E r \in Runs : Timer(r)
  \/ \E r \in Runs, data \in StdoutChunks : StdoutData(r, data)
  \/ \E r \in Runs, data \in StderrChunks : StderrData(r, data)

DataSpec == DataInit /\ [][DataNext]_vars

\* 'close' of the output stream while a transcoder of the command still runs
OutputCloseEarly ==
  /\ \E r \in Runs : runs[r].c.proc = "alive"
  /\ OutputClose

\* one call of run() on a command with an output stream that closes, if it does,
\* before the transcoder has exited
GraceInit ==
  /\ sup = SupIdle
  /\ cache = CacheInit
  /\ outputs \in { outs \in OutputLists : \E i \in DOMAIN outs : outs[i].target = "stream" }
  /\ inputStream = FALSE
  /\ options = [timeout |-> 0, niceness |-> 0]
  /\ mencoderProc = 0
  /\ runs = [r \in Runs |-> NoRun]
  /\ callsLeft = 1
  /\ streams = [inErr |-> FALSE, outClosed |-> FALSE, outErr |-> FALSE]
  /\ lastEffect = NoEffect
  /\ codecDataSent = FALSE
  /\ listeners = NoListeners
  /\ logger = NoWarning
  /\ command = NoCommand
  /\ arguments = NoArgs
  /\ queries = NoQueries

GraceNext ==
  \/ \E r \in Runs : Run(r)
  \/ \E r \in Runs, args \in {"ok", "throw"} : Prepare(r, args)
  \/ \E r \in Runs, res \in Lookups, args \in {"ok", "throw"} : FlvtoolResolved(r, res, args)
  \/ \E r \in Runs, res \in Lookups : MencoderResolved(r, res)
  \/ \E r \in Runs, o \in ExitOutcomes : ProcExit(r, o)
  \/ OutputCloseEarly
  \/ \E r \in Runs : GraceTimer(r)
  \/ \E r \in Runs, i \in 1..MaxOutputs, res \in {"ok", "failed"} : RewriterDone(r, i, res)

GraceSpec == GraceInit /\ [][GraceNext]_vars

\* ------------------------------------------------------------------------
\* Properties
\* ------------------------------------------------------------------------
ErrorEvent(err) == [type |-> "error", err |-> err]

TimeoutEvent == ErrorEvent(<<"process ran into a timeout", options.timeout>>)

SigTerm(r) == [kind |-> "signal", pid |-> r, signal |-> "SIGTERM"]

KillWarning == [kind |-> "warn: No running mencoder process", pid |-> 0, signal |-> ""]

ExitPathCalled == \E i \in 1..Len(sup.endLog) : sup.endLog[i].via = "exit"

\* C1 (SupSpec): endCB has been called through handleExit exactly when the 'exit'
\* event has been seen and every stream whose capture was requested has closed; a
\* stream that is not captured is not waited for.
C1_ExitPathWaitsForAll ==
  ExitPathCalled <=>
    /\ sup.c.processExited
    /\ (sup.c.captureStdout => sup.c.stdoutClosed)
    /\ (sup.c.captureStderr => sup.c.stderrClosed)

C1_Witness ==
  /\ sup.c.captureStdout /\ ~sup.c.captureStderr
  /\ sup.c.processExited /\ sup.c.stdoutClosed
  /\ ExitPathCalled

\* C2 (SupSpec): one call of _spawnMencoder calls endCB at most once, whatever
\* events the subprocess emits.
C2_EndCBOnce == Len(sup.endLog) <= 1

\* C3 (Spec): a run emits at most one terminal event, and its latch is never reset.
C3_OneTerminalEvent ==
  /\ [](\A r \in Runs : Len(runs[r].events) <= 1)
  /\ [][\A r \in Runs : runs[r].ended => runs'[r].ended]_vars

C3_Witness ==
  \E r \in Runs :
    /\ runs[r].events = <<TimeoutEvent>>
    /\ runs[r].endCBs > 0
    /\ runs[r].c.exitError # NoErr

\* a run that has passed the output check and has emitted no terminal event
Pending(r) ==
  /\ runs[r].phase \notin {"idle", "thrown"}
  /\ runs[r].events = <<>>

\* C4 (LiveSpec): a run that has passed the output check eventually emits a
\* terminal event: whenever some run is pending, a state follows where none is
\* (a terminal event, once emitted, stays in the run's events).
C4_RunTerminates ==
  (\E r \in Runs : Pending(r)) ~> (\A r \in Runs : ~Pending(r))

C4_Witness ==
  \E r \in Runs :
    /\ runs[r].rwCb
    /\ runs[r].events = <<[type |-> "end", err |-> NoErr]>>

\* C5 (Spec): on a command none of whose outputs has a target, run() throws;
\* nothing is prepared, spawned or emitted for that call.
C5_NoOutputNoSpawn ==
  (\A i \in 1..Len(outputs) : outputs[i].target = "absent") =>
    \A r \in Runs :
      /\ runs[r].phase \in {"idle", "thrown"}
      /\ runs[r].c = NoSup
      /\ runs[r].started = 0
      /\ runs[r].events = <<>>

C5_Witness == \E r \in Runs : runs[r].phase = "thrown"

\* a run whose transcoder was spawned and has reported neither 'exit' nor 'error'
Unfinished(r) ==
  /\ runs[r].started > 0
  /\ ~runs[r].c.processExited
  /\ runs[r].c.errors = 0

Preemptive ==
  { "process ran into a timeout", "Input stream error",
    "Output stream closed", "Output stream error" }

\* C6 as claimed (Spec): the terminal event of a run that spawned a subprocess is
\* emitted only after the 'exit' (or an 'error') of the subprocess was observed.
C6_TerminalOnlyAfterExit ==
  \A r \in Runs : (runs[r].started > 0 /\ runs[r].events # <<>>) => ~Unfinished(r)

\* C6 amended (Spec): before the 'exit' of the subprocess only the errors of the
\* timer and stream handlers are emitted, 'end' never is, and such an error stays
\* the only terminal event of the run once the exit has come.
C6_OnlyPreemptiveErrorsBeforeExit ==
  \A r \in Runs :
    /\ (runs[r].events # <<>> /\ Unfinished(r)) =>
          /\ runs[r].events[1].type = "error"
          /\ runs[r].events[1].err[1] \in Preemptive
    /\ \A i \in 1..Len(runs[r].events) :
          runs[r].events[i].err[1] \in Preemptive => Len(runs[r].events) = 1

C6_Witness ==
  \E r \in Runs :
    /\ runs[r].events = <<ErrorEvent(Err("Input stream error"))>>
    /\ runs[r].c.processExited
    /\ runs[r].endCBs = 1

\* the deadline timer of run r fires in this step, the transcoder still running
TimerFiresOnLive(r) ==
  /\ runs[r].timer = "pending" /\ runs'[r].timer = "none"
  /\ runs[r].c.proc = "alive" /\ runs[r].endCBs = 0

\* C7 as claimed (Spec): when the timer fires on a running subprocess, the terminal
\* event of the run is the timeout error and the subprocess is killed.
C7_TimeoutIsTheTerminalEvent ==
  [][\A r \in Runs : TimerFiresOnLive(r) =>
        /\ runs'[r].events = <<TimeoutEvent>>
        /\ lastEffect' = SigTerm(r)]_vars

\* C7 amended (Spec): when the timer fires on a running subprocess, the subprocess
\* is killed and the terminal event of the run is an 'error': the timeout error,
\* unless an error was already emitted for the run, which then stays.
C7_TimeoutKillsAndFails ==
  [][\A r \in Runs : TimerFiresOnLive(r) =>
        /\ lastEffect' = SigTerm(r)
        /\ runs'[r].ended
        /\ Len(runs'[r].events) = 1
        /\ runs'[r].events[1].type = "error"
        /\ runs[r].events = <<>> => runs'[r].events = <<TimeoutEvent>>
        /\ runs[r].events # <<>> => runs'[r].events = runs[r].events]_vars

C7_Witness ==
  \E r \in Runs :
    /\ runs[r].events = <<TimeoutEvent>>
    /\ runs[r].c.proc = "alive"
    /\ lastEffect = SigTerm(r)

ClosedUnended(r) ==
  /\ runs[r].grace = "pending"
  /\ runs[r].events = <<>>

C9_OneLiveProcess ==
  /\ Cardinality({ r \in Runs : runs[r].c.proc = "alive" }) <= 1
  /\ \A r \in Runs : (runs[r].c.proc = "alive" /\ runs[r].c.errors = 0) => mencoderProc = r

KillStep == \E signal \in KillSignals : Kill(signal)

ReniceStep == \E a \in NiceInputs : Renice(a)

\* C10 (RerunSpec): processCB sets command.mencoderProc, endCB deletes it; once the
\* endCB of a run has begun the handle never again is that run's process, and
\* without a handle kill() only logs its warning and renice() spawns nothing.
C10_HandleLifecycle ==
  /\ [](\A r \in Runs : runs[r].endCBs > 0 => mencoderProc # r)
  /\ [][\A r \in Runs :
          /\ runs'[r].started > runs[r].started => mencoderProc' = r
          /\ runs'[r].endCBs > runs[r].endCBs => mencoderProc' = 0]_vars
  /\ [][(mencoderProc = 0 /\ KillStep) => lastEffect' = KillWarning]_vars
  /\ [][(mencoderProc = 0 /\ ReniceStep) => lastEffect' = lastEffect]_vars

C10_Witness ==
  \E r \in Runs :
    /\ runs[r].endCBs > 0
    /\ runs[r].c.proc = "exited"
    /\ mencoderProc = 0
    /\ lastEffect = KillWarning

\* C11 (RetrySpec): no run emits 'codecData' more than once, whatever chunks its
\* stderr comes in and however often the banner is in the gathered text.
C11_CodecDataOnce == \A r \in Runs : runs[r].codecData <= 1

RewriteFailure(i) == ErrorEvent(<<"flvtool failed", i>>)

\* C13 as claimed (Spec): when a flvtool process has failed, the terminal event of
\* the run is the 'error' of a flvtool failure.
C13_RewriteFailureIsTerminal ==
  \A r \in Runs :
    (\E i \in 1..Len(runs[r].rw) : runs[r].rw[i] = "failed") =>
      \E j \in 1..Len(runs[r].rw) :
        runs[r].rw[j] = "failed" /\ runs[r].events = <<RewriteFailure(j)>>

\* C13 amended (Spec): flvtool is spawned once for every output that asks for it, in
\* the step where the transcoder exits without error, and never again; 'end' is
\* emitted only when every flvtool process has succeeded; when one fails 'end' is
\* never emitted and the terminal event is an 'error': that of the first flvtool
\* failure, unless an 'error' was emitted for the run before, which then stays.
C13_RewritersDecideEnd ==
  /\ [](\A r \in Runs :
         /\ (runs[r].rw # <<>> /\ runs[r].events = <<[type |-> "end", err |-> NoErr]>>) =>
               \A i \in 1..Len(runs[r].rw) : runs[r].rw[i] \in {"ok", "none"}
         /\ (\E i \in 1..Len(runs[r].rw) : runs[r].rw[i] = "failed") =>
               /\ Len(runs[r].events) = 1
               /\ runs[r].events[1].type = "error")
  /\ [][\A r \in Runs :
          /\ \A i \in 1..Len(runs'[r].rw) :
                (runs'[r].rw[i] = "running" /\ (runs[r].rw = <<>> \/ runs[r].rw[i] # "running")) =>
                  /\ runs[r].rw = <<>>
                  /\ ~runs[r].c.processExited /\ runs'[r].c.processExited
                  /\ runs'[r].c.exitError = NoErr
                  /\ outputs[i].flvmeta
          /\ (runs[r].rw = <<>> /\ runs'[r].rw # <<>>) =>
                \A i \in 1..Len(outputs) : outputs[i].flvmeta => runs'[r].rw[i] = "running"
          /\ \A i \in 1..Len(runs[r].rw) :
                (runs[r].rw[i] = "running" /\ runs'[r].rw[i] = "failed") =>
                  /\ (runs[r].events = <<>> /\ ~runs[r].rwCb) =>
                        runs'[r].events = <<RewriteFailure(i)>>
                  /\ runs[r].events # <<>> => runs'[r].events = runs[r].events]_vars

C13_Witness ==
  \E r \in Runs :
    /\ runs[r].rw = <<"ok", "failed">>
    /\ runs[r].events = <<RewriteFailure(2)>>

\* C14 (Spec): when an output asks for flvtool on a file and the lookup of the flvtool
\* binary yields no path, the run fails during preparation with an error and no
\* transcoder is spawned.
C14_NoRewriterNoSpawn ==
  \A r \in Runs :
    ( /\ cache.flvtoolPath = ""
      /\ \E i \in 1..Len(outputs) : outputs[i].flvmeta /\ outputs[i].isFile
      /\ runs[r].phase \notin {"idle", "thrown", "preparing", "flvlookup"} )
    => /\ runs[r].phase = "failed"
       /\ runs[r].c = NoSup
       /\ runs[r].started = 0
       /\ Len(runs[r].events) = 1
       /\ runs[r].events[1].type = "error"

\* C15 (Spec): once a run has gone through the flvtool check of _prepare, no output
\* that is not a file has its flvmeta flag set, and flvtool is never spawned on an
\* output that is not a file.
C15_NoFlagOnNonFile ==
  \A r \in Runs :
    runs[r].phase \notin {"idle", "thrown", "preparing"} =>
      /\ \A i \in 1..Len(outputs) : outputs[i].flvmeta => outputs[i].isFile
      /\ \A i \in 1..Len(runs[r].rw) : runs[r].rw[i] # "none" => outputs[i].isFile

\* C16 (Spec): when _prepare fails (the flvtool lookup reports an error, or building
\* the arguments throws), the run emits 'error' with that failure, no transcoder is
\* spawned and no 'start' is emitted.
C16_PrepareFailureFailsRun ==
  \A r \in Runs :
    runs[r].prepErr # NoErr =>
      /\ runs[r].events = <<ErrorEvent(runs[r].prepErr)>>
      /\ runs[r].c = NoSup
      /\ runs[r].started = 0
      /\ mencoderProc # r

C16_Witness ==
  \E r \in Runs :
    /\ runs[r].prepErr = Err("which failed")
    /\ runs[r].events = <<ErrorEvent(Err("which failed"))>>

\* the run whose processCB was the last to run
NewestStarted(r) ==
  /\ runs[r].started > 0
  /\ \A q \in Runs : q > r => runs[q].started = 0

C18_ReniceClamps ==
  /\ [](options.niceness \in -20..20)
  /\ [][\A a \in NiceInputs : Renice(a) =>
          LET n == IF a = <<>> THEN 0 ELSE a[1]
          IN /\ options'.niceness = (IF n > 20 THEN 20 ELSE IF n < -20 THEN -20 ELSE n)
             /\ (n > 20 \/ n < -20) => logger' = <<"Invalid niceness value", n>>
             /\ (n <= 20 /\ n >= -20) => logger' = logger]_vars

C18_Witness ==
  /\ options.niceness = -20
  /\ logger = <<"Invalid niceness value", -999>>
  /\ lastEffect.kind = "renice"

\* C19 (RerunSpec): with a handle, kill(signal) sends the given signal, or SIGKILL
\* when none is given, to the process of the handle; without a handle it sends
\* nothing and logs its warning; in both cases nothing else of the command changes.
C19_KillSendsOrWarns ==
  [][\A signal \in KillSignals : Kill(signal) =>
        /\ mencoderProc = 0 => lastEffect' = KillWarning
        /\ mencoderProc # 0 =>
              lastEffect' = [kind |-> "signal", pid |-> mencoderProc,
                             signal |-> IF signal = "" THEN "SIGKILL" ELSE signal]
        /\ UNCHANGED <<mencoderProc, runs, options, outputs, cache, codecDataSent>>]_vars

C19_Witness ==
  \E r \in Runs :
    /\ mencoderProc = r
    /\ lastEffect = [kind |-> "signal", pid |-> r, signal |-> "SIGKILL"]

\* the transcoder of run r has ended abnormally: it exited with a code or by a signal,
\* or it could not be spawned
Abnormal(r) ==
  \/ runs[r].c.exitError # NoErr
  \/ runs[r].c.proc = "failed"

\* C20 (Spec): when the transcoder ends abnormally the terminal event of the run is
\* an 'error' and flvtool is not spawned; the error endCB emits carries the stderr
\* diagnostic exactly when the process exited with a non-zero code, and is the error
\* of the 'exit' or 'error' handler as it is after a signal or a failed spawn.
C20_AbnormalEndIsError ==
  /\ [](\A r \in Runs : Abnormal(r) =>
         /\ Len(runs[r].events) = 1
         /\ runs[r].events[1].type = "error"
         /\ runs[r].rw = <<>>)
  /\ [][\A r \in Runs :
          (runs'[r].endCBs > runs[r].endCBs /\ runs[r].events = <<>>) =>
            /\ (~runs[r].c.processExited /\ runs'[r].c.processExited) =>
                  LET err == runs'[r].c.exitError
                  IN /\ err[1] = "mencoder exited with code" =>
                           runs'[r].events =
                             <<ErrorEvent(<<"mencoder exited with code: stderr", err[2]>>)>>
                     /\ err[1] = "mencoder was killed with signal" =>
                           runs'[r].events = <<ErrorEvent(err)>>
            /\ runs'[r].c.errors > runs[r].c.errors =>
                  runs'[r].events = <<ErrorEvent(Err("spawn error"))>>]_vars

C20_Witness ==
  \E r \in Runs :
    /\ runs[r].c.proc = "exited"
    /\ runs[r].events = <<ErrorEvent(<<"mencoder exited with code: stderr", 1>>)>>

\* C21 (SupSpec): an 'error' event of the subprocess makes _spawnMencoder call endCB
\* with that error in the same step, whether or not 'exit' was seen and whether or
\* not the captured streams have closed.
C21_ErrorCallsEndCBAtOnce ==
  [][sup'.c.errors > sup.c.errors =>
        sup'.endLog = Append(sup.endLog, [err |-> Err("spawn error"), via |-> "error"])]_vars

C21_Witness ==
  /\ sup.c.proc = "failed"
  /\ sup.c.captureStdout /\ ~sup.c.stdoutClosed
  /\ ~sup.c.processExited
  /\ sup.endLog = <<[err |-> Err("spawn error"), via |-> "error"]>>

\* C22 (SupSpec): processCB is called once, right after spawn, when spawning
\* succeeds, and is never called when the subprocess reports that it could not be
\* spawned or when the path of the binary cannot be resolved.
C22_StartOnlyOnSuccess ==
  /\ sup.started <= 1
  /\ sup.c.st = "spawned" => sup.started = 1
  /\ (sup.c.st = "failed" \/ sup.c.proc = "failed") => sup.started = 0

\* C23 (SupSpec): when the lookup of the transcoder reports an error or yields an
\* empty path, endCB is called exactly once, with the lookup error or with 'Cannot
\* find mencoder'; no subprocess is spawned and processCB is not called.
C23_NoBinaryNoSpawn ==
  /\ (cache.mencoderPath = "" /\ sup.c.st \notin {"none", "resolving"}) => sup.c.st = "failed"
  /\ sup.c.st = "failed" =>
        /\ sup.endLog = <<[err |-> IF cache.mencoderPath = ""
                                   THEN Err("Cannot find mencoder")
                                   ELSE Err("which failed"),
                           via |-> "resolve"]>>
        /\ cache.mencoderPath \in {"", "unset"}
        /\ sup.c.proc = "none"
        /\ sup.c.errors = 0 /\ ~sup.c.processExited
        /\ sup.command = ""
        /\ sup.started = 0

C23_Witness ==
  /\ sup.c.st = "failed"
  /\ cache.mencoderPath = "unset"
  /\ sup.endLog = <<[err |-> Err("which failed"), via |-> "resolve"]>>

\* the handlers of a stream 'error' have run for run r: err is the only terminal
\* event unless there was one before, and the subprocess, if it still runs, is signalled
StreamErrorHandled(r, err) ==
  /\ runs[r].events = <<>> => runs'[r].events = <<ErrorEvent(err)>>
  /\ runs[r].events # <<>> => runs'[r].events = runs[r].events
  /\ runs'[r].ended
  /\ runs[r].c.proc = "alive" => lastEffect' = SigTerm(r)

\* C24 (Spec): when the input stream or the output stream of a command whose
\* subprocess was started emits 'error', the subprocess is killed and the terminal
\* event of the run is the 'error' 'Input stream error' / 'Output stream error',
\* unless a terminal event was emitted for the run before, which then stays.
C24_StreamErrorKillsAndFails ==
  [][\A r \in Runs : runs[r].started > 0 =>
        /\ (~streams.inErr /\ streams'.inErr) =>
              StreamErrorHandled(r, Err("Input stream error"))
        /\ (~streams.outErr /\ streams'.outErr) =>
              StreamErrorHandled(r, Err("Output stream error"))]_vars

C24_Witness ==
  \E r \in Runs :
    /\ runs[r].events = <<ErrorEvent(Err("Output stream error"))>>
    /\ streams.outErr
    /\ runs[r].c.proc = "alive"
    /\ lastEffect = SigTerm(r)

EndEvent == [type |-> "end", err |-> NoErr]

\* the transcoder of run r has exited without error and its endCB has run
ExitedClean(r) ==
  /\ runs[r].c.processExited
  /\ runs[r].c.exitError = NoErr
  /\ runs[r].endCBs > 0

\* C27 (GraceSpec): when the output stream has closed and the subprocess then exits
\* without error before the 20 ms timer fires, the terminal event of the run is
\* 'end' (emitted at the exit when no flvtool run is asked for), and the timer,
\* when it fires afterwards, emits nothing.
C27_ExitWithinGraceIsEnd ==
  [][\A r \in Runs :
        /\ ( /\ runs[r].grace = "pending" /\ runs[r].events = <<>>
             /\ ~ExitedClean(r) /\ ExitedClean(r)'
             /\ runs'[r].rw = <<>> ) => runs'[r].events = <<EndEvent>>
        /\ ( /\ runs[r].grace = "pending" /\ runs'[r].grace = "none"
             /\ ExitedClean(r) ) => runs'[r].events = runs[r].events]_vars

\* a deadline or a stream error is reported to run r in this step, before the
\* 'exit' of its transcoder
ReportedBeforeExit(r) ==
  /\ runs[r].started > 0 /\ ~runs[r].c.processExited
  /\ \/ runs[r].timer = "pending" /\ runs'[r].timer = "none"
     \/ ~streams.inErr /\ streams'.inErr
     \/ ~streams.outErr /\ streams'.outErr

\* C29 (Spec): 'end' is emitted only for a run whose transcoder has exited with code
\* 0 and without signal: an exit with a code or by a signal leaves 'error' as the
\* terminal event, and so does a deadline or a stream error reported before the
\* exit; events once emitted stay, and 'end' is never emitted beside another event.
C29_EndOnlyAfterCleanExit ==
  /\ [](\A r \in Runs :
         (\E i \in 1..Len(runs[r].events) : runs[r].events[i].type = "end") =>
            /\ runs[r].events = <<EndEvent>>
            /\ ExitedClean(r))
  /\ [][\A r \in Runs :
          /\ Len(runs'[r].events) >= Len(runs[r].events)
          /\ SubSeq(runs'[r].events, 1, Len(runs[r].events)) = runs[r].events
          /\ \A o \in ExitOutcomes :
                (ProcExit(r, o) /\ (o.code # 0 \/ o.signal # "")) =>
                   /\ Len(runs'[r].events) = 1
                   /\ runs'[r].events[1].type = "error"
          /\ ReportedBeforeExit(r) =>
                /\ Len(runs'[r].events) = 1
                /\ runs'[r].events[1].type = "error"]_vars

C29_Witness ==
  \E r \in Runs :
    /\ runs[r].events = <<EndEvent>>
    /\ runs[r].c.proc = "exited"
    /\ runs[r].rw = <<>>
    /\ streams.outClosed

\* C30 (Spec): once the transcoder of a run has exited and the endCB of the run has
\* been called, the deadline timer of the run, when it fires, emits no event and
\* sends no signal.
C30_LateTimerDoesNothing ==
  [][\A r \in Runs :
        ( /\ runs[r].timer = "pending" /\ runs'[r].timer = "none"
          /\ runs[r].c.processExited /\ runs[r].endCBs > 0 ) =>
           /\ runs'[r].events = runs[r].events
           /\ lastEffect' = lastEffect]_vars

RECURSIVE Flatten(_)
Flatten(parts) ==
  IF parts = <<>> THEN <<>> ELSE Head(parts) \o Flatten(Tail(parts))

\* what the claim lists for input i: its options, then its locator
InputPart(i) ==
  LET input == command.inputs[i]
  IN input.options
       \o << IF input.source = "stream" THEN "mf://pipe:0" ELSE "mf://" \o input.source >>

\* the strings of the video filters and of the size filters of an output, in that order
VideoFilterStrings(o) ==
  o.videoFilters \o
    [ k \in 1..Len(o.sizeFilters) |->
        IF o.sizeFilters[k].options = "" THEN o.sizeFilters[k].filter
        ELSE o.sizeFilters[k].filter \o "=" \o o.sizeFilters[k].options ]

\* what the claim lists for output j: audio options, the audio filters if any, video
\* options, the video and size filters if any, output options, the locator if any
OutputPart(j) ==
  LET o == outputs[j]
      vf == VideoFilterStrings(o)
  IN Flatten(<< o.audio,
                IF o.audioFilters = <<>> THEN <<>> ELSE <<"-af", join(o.audioFilters)>>,
                o.video,
                IF vf = <<>> THEN <<>> ELSE <<"-vf", join(vf)>>,
                o.options,
                CASE o.target = "absent" -> <<>>
                  [] o.target = "stream" -> <<"pipe:1">>
                  [] OTHER -> <<"-o", o.target>> >>)

\* C25 (ArgsSpec): the list _getArguments returns is, in this order: for every input
\* in order its options and its locator (the placeholder for a stream), the global
\* options, the complex-filter options, and for every output in order its audio
\* options, the joined audio filters only if there are any, its video options, the
\* joined video and size filters only if there are any, its output options and
\* last its locator (file, stream placeholder, or nothing); the call leaves the
\* inputs, the outputs and the option lists of the command as they were.
C25_ArgumentOrder ==
  /\ [](arguments.called =>
          arguments.list =
            Flatten([i \in 1..Len(command.inputs) |-> InputPart(i)])
              \o command.global
              \o command.complexFilters
              \o Flatten([j \in 1..Len(outputs) |-> OutputPart(j)]))
  /\ [][arguments' # arguments => UNCHANGED <<command, outputs, options>>]_vars

C25_Witness ==
  /\ arguments.called
  /\ command.global = <<"-quiet">>
  /\ arguments.list =
        << "-ss", "1", "mf://pipe:0", "mf://in.avi", "-quiet",
           "-oac", "copy", "-af", "volume", "-vf", "scale=320:240", "-o", "out.avi",
           "-ovc", "copy", "-vf", "flip,scale=320:240,expand", "-of", "avi", "pipe:1" >>

\* the queries that have fetched the catalog of a kind and written it to the cache
Fetched(kind) ==
  { q \in Queries : /\ queries[q].kind = kind /\ queries[q].via = "probe"
                    /\ queries[q].st = "done" /\ queries[q].result # "error" }

\* C26 (CatalogSpec): the catalog of each kind is fetched and written to the cache
\* at most once, also when several queries of the kind are made before the first
\* has its answer; a cached catalog never changes, and a query made once the
\* catalog is cached returns it without spawning the transcoder.
C26_CatalogFetchedOnce ==
  /\ [](\A kind \in Kinds : Cardinality(Fetched(kind)) <= 1)
  /\ [][\A kind \in Kinds : cache[kind] # "unset" => cache'[kind] = cache[kind]]_vars
  /\ [][\A q \in Queries, kind \in Kinds :
          (QueryCall(q, kind) /\ cache[kind] # "unset") =>
             /\ queries'[q].via = "cache"
             /\ queries'[q].result = cache[kind]]_vars

\* C28 (ProbeSpec): runFfprobe is called at most once for every run: once in the
\* run() call itself when a 'progress' listener exists then, and otherwise at most
\* once later, in the step in which a 'progress' listener is added.
C28_ProbeAtMostOnce ==
  /\ [](\A r \in Runs : runs[r].ffprobes <= 1)
  /\ [][\A r \in Runs :
          /\ (runs[r].phase = "idle" /\ runs'[r].phase = "preparing") =>
                runs'[r].ffprobes = (IF listeners.progress THEN 1 ELSE 0)
          /\ (runs[r].phase # "idle" /\ runs'[r].ffprobes > runs[r].ffprobes) =>
                ~listeners.progress /\ listeners'.progress]_vars

C28_Witness ==
  \E r \in Runs :
    /\ runs[r].ffprobes = 1
    /\ runs[r].c.proc = "exited"
    /\ listeners.progress /\ listeners.codecData

\* C31 (DataSpec): once a run has emitted its terminal event, no 'progress' and no
\* 'codecData' is emitted for it, whatever the subprocess still writes.
C31_NoDataEventsAfterEnd ==
  [][\A r \in Runs : runs[r].events # <<>> =>
        /\ runs'[r].progress = runs[r].progress
        /\ runs'[r].codecData = runs[r].codecData]_vars

\* C32 (DataSpec): 'start' is emitted at most once for a run, only when a
\* subprocess was spawned, and before every 'progress', 'codecData', 'error' or
\* 'end' that comes from the subprocess; a run that fails before the spawn emits
\* 'error' and no 'start'.
C32_StartFirstAndOnlyOnSpawn ==
  \A r \in Runs :
    /\ runs[r].started <= 1
    /\ runs[r].started > 0 => runs[r].c.proc \in {"alive", "exited"}
    /\ ( \/ runs[r].progress > 0 \/ runs[r].codecData > 0
         \/ runs[r].c.processExited \/ runs[r].c.errors > 0 ) => runs[r].started = 1
    /\ (runs[r].phase = "failed" \/ runs[r].c.st = "failed") =>
          /\ runs[r].started = 0
          /\ Len(runs[r].events) = 1
          /\ runs[r].events[1].type = "error"

====
